---- MODULE Spec2Model ----
(***************************************************************************)
(* Chained cubic Bezier editor (src/src/main.rs): the curve mathematics    *)
(* (decasteljau, cubic_bezier, solve_quadratic, bounding_box,              *)
(* tight_bounding_box), the Curve with its two derived caches and dirty    *)
(* flag (render, draw) and the per-frame interaction of main.              *)
(*                                                                         *)
(* Numbers.  An f32 is modelled as an extended rational [n, d] in lowest   *)
(* terms, d >= 0: d > 0 is the finite value n/d, d = 0 is non-finite       *)
(* (n = 1 : +inf, n = -1 : -inf, n = 0 : NaN).  +, - and * are exact; the  *)
(* two inexact operations, sqrt and /, round their result down to a        *)
(* multiple of 1/TRes.  Division by zero yields the IEEE non-finite value. *)
(*                                                                         *)
(* Colours are left out: Point.color never steers control flow and never   *)
(* enters a position, a box, the dirty flag or the selection.  The draw_*  *)
(* calls, the B and G keys and the grid only feed the rendering sink.      *)
(*                                                                         *)
(* Indices are 0-based as in the source: control point i of the program is *)
(* element i+1 of the TLA+ sequence.                                       *)
(***************************************************************************)
EXTENDS Integers, Sequences, FiniteSets, TLC

\* most control points the editor model lets the user place
MaxPoints == 7
\* the sampling loop runs t = 0, 1/Steps, ..., 1 (the source: 2000 steps of 0.0005)
Steps == 3
\* resolution to which sqrt and / round
TRes == 8
\* the largest coordinate of the segments drawn for the pure functions
MaxCoord == 2

CONTROLPOINT_RADIUS == 10

\* the pointer positions the input source delivers: two places further apart
\* than the pick radius
Pointer == { <<0, 0>>, <<12, 0>> }

-----------------------------------------------------------------------------
(* f32 arithmetic *)

Abs(i) == IF i < 0 THEN -i ELSE i

Sign(i) == IF i < 0 THEN -1 ELSE IF i > 0 THEN 1 ELSE 0

RECURSIVE GCD(_, _)
GCD(a, b) == IF b = 0 THEN a ELSE GCD(b, a % b)

Norm(n, d) ==
    IF d = 0 THEN [n |-> Sign(n), d |-> 0]
    ELSE LET s == IF d < 0 THEN -1 ELSE 1
             g == GCD(Abs(n), Abs(d))
         IN  [n |-> (s * n) \div g, d |-> (s * d) \div g]

R(i) == [n |-> i, d |-> 1]

IsNaN(x) == x.d = 0 /\ x.n = 0

RNeg(x) == [n |-> -x.n, d |-> x.d]

RAdd(x, y) ==
    IF x.d = 1 /\ y.d = 1 THEN [n |-> x.n + y.n, d |-> 1] ELSE
    LET l == (x.d * y.d) \div GCD(x.d, y.d)
    IN  Norm(x.n * (l \div x.d) + y.n * (l \div y.d), l)

RSub(x, y) == RAdd(x, RNeg(y))

RMul(x, y) ==
    IF x.d = 1 /\ y.d = 1 THEN [n |-> x.n * y.n, d |-> 1] ELSE
    LET g1 == GCD(Abs(x.n), y.d)
        g2 == GCD(Abs(y.n), x.d)
    IN  Norm((x.n \div g1) * (y.n \div g2), (x.d \div g2) * (y.d \div g1))

RLe(x, y) == ~IsNaN(x) /\ ~IsNaN(y) /\ x.n * y.d <= y.n * x.d

RLt(x, y) == ~IsNaN(x) /\ ~IsNaN(y) /\ x.n * y.d < y.n * x.d

RMin(x, y) == IF RLe(y, x) THEN y ELSE x

RMax(x, y) == IF RLe(x, y) THEN y ELSE x

\* the largest s with s * s <= v
RECURSIVE ISqrt(_)
ISqrt(v) ==
    IF v < 2 THEN v
    ELSE LET s == 2 * ISqrt(v \div 4)
         IN  IF (s + 1) * (s + 1) <= v THEN s + 1 ELSE s

\* f32::sqrt of a finite x >= 0, rounded down to the 1/TRes grid
Sqrt(x) == Norm(ISqrt((x.n * TRes * TRes) \div x.d), TRes)

\* x / y: non-finite when y = 0, else rounded down to the 1/TRes grid
RDiv(x, y) ==
    IF y.n = 0 THEN [n |-> Sign(x.n), d |-> 0]
    ELSE LET num == Sign(y.n) * x.n * y.d
             den == Abs(y.n) * x.d
         IN  Norm((num * TRes) \div den, TRes)

powi(x, k) == IF k = 2 THEN RMul(x, x) ELSE RMul(x, RMul(x, x))

\* (0.0..1.0).contains(&t)
contains01(t) == RLe(R(0), t) /\ RLt(t, R(1))

-----------------------------------------------------------------------------
(* Vec2 and Point: a position is a pair of f32 *)

vec2(x, y) == <<x, y>>

VAdd(p, q) == <<RAdd(p[1], q[1]), RAdd(p[2], q[2])>>

VSub(p, q) == <<RSub(p[1], q[1]), RSub(p[2], q[2])>>

VScale(p, s) == <<RMul(p[1], s), RMul(p[2], s)>>

\* Point::lerp on the position (glam: self + (other - self) * t)
lerp(a, b, t) == VAdd(a, VScale(VSub(b, a), t))

\* the last level's second interpolation with its operands swapped
decasteljau_swapped(points, t) ==
    LET a == points[1]
        b == points[2]
        c == points[3]
        d == points[4]
        ab == lerp(a, b, t)
        bc == lerp(b, c, t)
        cd == lerp(c, d, t)
        abc == lerp(ab, bc, t)
        bcd == lerp(cd, bc, t)
    IN  lerp(abc, bcd, t)

\* points is a sequence of 4 positions; points[i] of the source is points[i+1]
decasteljau(points, t) ==
    LET a == points[1]
        b == points[2]
        c == points[3]
        d == points[4]
        ab == lerp(a, b, t)
        bc == lerp(b, c, t)
        cd == lerp(c, d, t)
        abc == lerp(ab, bc, t)
        bcd == lerp(bc, cd, t)
    IN  lerp(abc, bcd, t)

\* a Bernstein weight that drops the linear term of the second one
cubic_bezier_wrong_weight(t, points) ==
    LET t2 == powi(t, 2)
        t3 == powi(t, 3)
        w0 == RAdd(RAdd(RAdd(RNeg(t3), RMul(R(3), t2)), RNeg(RMul(R(3), t))), R(1))
        w1 == RAdd(RMul(R(3), t3), RNeg(RMul(R(6), t2)))
        w2 == RAdd(RMul(R(-3), t3), RMul(R(3), t2))
        w3 == t3
    IN  VAdd(VAdd(VAdd(VScale(points[1], w0), VScale(points[2], w1)),
                  VScale(points[3], w2)), VScale(points[4], w3))

cubic_bezier(t, points) ==
    LET t2 == powi(t, 2)
        t3 == powi(t, 3)
        w0 == RAdd(RAdd(RAdd(RNeg(t3), RMul(R(3), t2)), RNeg(RMul(R(3), t))), R(1))
        w1 == RAdd(RAdd(RMul(R(3), t3), RNeg(RMul(R(6), t2))), RMul(R(3), t))
        w2 == RAdd(RMul(R(-3), t3), RMul(R(3), t2))
        w3 == t3
    IN  VAdd(VAdd(VAdd(VScale(points[1], w0), VScale(points[2], w1)),
                  VScale(points[3], w2)), VScale(points[4], w3))

\* Option
None == <<>>

Some(v) == <<v>>

\* the coefficients of the derivative's quadratic on one axis
quad_a(xs) ==
    RAdd(RSub(RAdd(RMul(R(-3), xs[1]), RMul(R(9), xs[2])), RMul(R(9), xs[3])),
         RMul(R(3), xs[4]))

quad_b(xs) == RAdd(RSub(RMul(R(6), xs[1]), RMul(R(12), xs[2])), RMul(R(6), xs[3]))

quad_c(xs) == RAdd(RMul(R(-3), xs[1]), RMul(R(3), xs[2]))

quad_delta(xs) ==
    RSub(RMul(quad_b(xs), quad_b(xs)), RMul(RMul(R(4), quad_a(xs)), quad_c(xs)))

\* xs is the sequence of the 4 values of one axis; Some((x0, x1)) or None
solve_quadratic(xs) ==
    LET a == quad_a(xs)
        b == quad_b(xs)
        delta == quad_delta(xs)
    IN  IF RLe(R(0), delta)
        THEN LET x0 == RDiv(RAdd(RNeg(b), Sqrt(delta)), RMul(R(2), a))
                 x1 == RDiv(RSub(RNeg(b), Sqrt(delta)), RMul(R(2), a))
             IN  Some(<<x0, x1>>)
        ELSE None

-----------------------------------------------------------------------------
(* Bounding boxes: a box is <<point_min, point_max>> *)

\* f32::MAX and f32::MIN: stand-ins above and below every coordinate
F32_MAX == [n |-> 1, d |-> 0]

F32_MIN == [n |-> -1, d |-> 0]

RECURSIVE bounding_box_from(_, _, _)
bounding_box_from(points, i, acc) ==
    IF i > Len(points) THEN acc
    ELSE LET p == points[i]
         IN  bounding_box_from(points, i + 1,
                 << vec2(RMin(acc[1][1], p[1]), RMin(acc[1][2], p[2])),
                    vec2(RMax(acc[2][1], p[1]), RMax(acc[2][2], p[2])) >>)

bounding_box(points) ==
    bounding_box_from(points, 1, << vec2(F32_MAX, F32_MAX), vec2(F32_MIN, F32_MIN) >>)

\* one `if (0.0..1.0).contains(&t)` block: widen the box on one axis by the
\* candidate's coordinate on that axis
expand(box, points, t, axis) ==
    IF contains01(t)
    THEN LET candidate == cubic_bezier(t, points)
             v == candidate[axis]
         IN  << [box[1] EXCEPT ![axis] = RMin(box[1][axis], v)],
                [box[2] EXCEPT ![axis] = RMax(box[2][axis], v)] >>
    ELSE box

expand_axis(box, points, axis) ==
    LET xs == << points[1][axis], points[2][axis], points[3][axis], points[4][axis] >>
        r == solve_quadratic(xs)
    IN  IF r # None
        THEN expand(expand(box, points, r[1][1], axis), points, r[1][2], axis)
        ELSE box

tight_bounding_box(points) ==
    LET seed == bounding_box(<< points[1], points[4] >>)
    IN  expand_axis(expand_axis(seed, points, 1), points, 2)

-----------------------------------------------------------------------------
(* Program state *)

VARIABLES
    curve,          \* Curve { control, rendered, boxes, modified }
    selected,       \* main's `selected: Option<usize>`
    use_casteljau,  \* main's evaluation-mode flag
    pc,             \* "input": before the frame's input handling; "draw": before
                    \* its draw pass; "aborted": the process panicked
    frame,          \* what the input handling of the current frame did (history)
    pts,            \* the 4 control points handed to the pure functions
    res             \* the result of the last pure function applied to pts

vars == << curve, selected, use_casteljau, pc, frame, pts, res >>

BLUE == "BLUE"

RED == "RED"

GOLD == "GOLD"

BOUNDING_BOX_COLOR == BLUE

\* the parameter of sample j: `t as f32 * 0.0005` with 1/Steps for 0.0005
sample_t(j) == RMul(R(j), Norm(1, Steps))

\* the evaluator render picks by mode (position part)
bezier(casteljau, points, t) ==
    IF casteljau THEN decasteljau(points, t) ELSE cubic_bezier(t, points)

RECURSIVE render_from(_, _, _)
render_from(self, casteljau, k) ==
    IF k + 4 > Len(self.control) THEN [self EXCEPT !.modified = FALSE]
    ELSE LET control_window == SubSeq(self.control, k + 1, k + 4)
             samples == [j \in 1..(Steps + 1) |->
                            bezier(casteljau, control_window, sample_t(j - 1))]
             coarse == bounding_box(control_window)
             tight == tight_bounding_box(control_window)
             pushed == [self EXCEPT
                          !.rendered = @ \o samples,
                          !.boxes = @ \o << [point_min |-> coarse[1],
                                             point_max |-> coarse[2],
                                             point_color |-> BOUNDING_BOX_COLOR,
                                             outline_color |-> BOUNDING_BOX_COLOR],
                                            [point_min |-> tight[1],
                                             point_max |-> tight[2],
                                             point_color |-> RED,
                                             outline_color |-> GOLD] >>]
         IN  render_from(pushed, casteljau, k + 3)

\* control.windows(4).step_by(3): the windows start at 0, 3, 6, ...
render(self, casteljau) == render_from(self, casteljau, 0)

\* the rebuild moved out of the `if self.modified` block
draw_render_always(self, casteljau) ==
    IF Len(self.control) < 4 THEN self
    ELSE render(IF self.modified
                THEN [self EXCEPT !.rendered = <<>>, !.boxes = <<>>]
                ELSE self, casteljau)

\* the rebuild without the two clear() calls
draw_no_clear(self, casteljau) ==
    IF Len(self.control) < 4 THEN self
    ELSE IF self.modified THEN render(self, casteljau)
    ELSE self

\* the early return replaced by emptying the caches
draw_clear_when_short(self, casteljau) ==
    IF Len(self.control) < 4 THEN [self EXCEPT !.rendered = <<>>, !.boxes = <<>>]
    ELSE IF self.modified
         THEN render([self EXCEPT !.rendered = <<>>, !.boxes = <<>>], casteljau)
    ELSE self

draw(self, casteljau) ==
    IF Len(self.control) < 4 THEN self
    ELSE IF self.modified
         THEN render([self EXCEPT !.rendered = <<>>, !.boxes = <<>>], casteljau)
    ELSE self

-----------------------------------------------------------------------------
(* main: the input handling of one frame *)

within_radius(p, mx, my) ==
    LET dist == Sqrt(RAdd(powi(RSub(mx, p[1]), 2), powi(RSub(my, p[2]), 2)))
    IN  RLe(dist, R(CONTROLPOINT_RADIUS))

\* the scan with a break at the first hit
RECURSIVE collide_first_from(_, _, _, _)
collide_first_from(control, mx, my, i) ==
    IF i >= Len(control) THEN None
    ELSE IF within_radius(control[i + 1], mx, my) THEN Some(i)
    ELSE collide_first_from(control, mx, my, i + 1)

collide_first(control, mx, my) == collide_first_from(control, mx, my, 0)

\* for (i, p) in control.iter().enumerate(): every hit overwrites `selected`
RECURSIVE collide_from(_, _, _, _, _)
collide_from(control, mx, my, i, sel) ==
    IF i >= Len(control) THEN sel
    ELSE collide_from(control, mx, my, i + 1,
                      IF within_radius(control[i + 1], mx, my) THEN Some(i) ELSE sel)

collide(control, mx, my) == collide_from(control, mx, my, 0, None)

\* Vec::remove(id)
remove(control, id) == SubSeq(control, 1, id) \o SubSeq(control, id + 2, Len(control))

\* frame.scanned: the frame started with nothing selected and scanned the
\* control points; frame.near: the indices the scan found within the pick
\* radius; frame.picked: the selection the scan ended with
\* frame.pass tells what the last draw pass found: "short" (fewer than 4
\* control points), "rebuild" (a dirty curve) or "read" (a clean one)
NoFrame ==
    [ scanned |-> FALSE, near |-> {}, picked |-> None,
      moved |-> FALSE, deleted |-> FALSE, inserted |-> FALSE,
      released |-> FALSE, toggled |-> FALSE, pass |-> "none" ]

\* curve.control[id].pos = vec2(mx, my); curve.modified = true
move_point(self, id, mx, my) ==
    [self EXCEPT !.control[id + 1] = vec2(mx, my), !.modified = TRUE]

\* if let Some(id) = selected { if is_mouse_button_pressed(MouseButton::Right)
may_delete(sel, right_pressed) == sel # None /\ right_pressed

\* the insert guard without `selected.is_none()`
may_insert_any(sel, left_pressed) == left_pressed

\* if selected.is_none() { if is_mouse_button_pressed(MouseButton::Left)
may_insert(sel, left_pressed) == sel = None /\ left_pressed

\* if !is_mouse_button_down(MouseButton::Left) { selected = None; }
unselect(sel, left_down) == IF ~left_down THEN None ELSE sel

Frame(px, py, left_down, left_pressed, right_pressed, key_m) ==
    /\ pc = "input"
    /\ IF selected # None /\ selected[1] >= Len(curve.control)
       THEN \* curve.control[id] with id out of bounds panics
            /\ pc' = "aborted"
            /\ UNCHANGED << curve, selected, use_casteljau, frame, pts, res >>
       ELSE LET mx == R(px)
                my == R(py)
                \* lines 322-332
                moved == selected # None
                c1 == IF moved THEN move_point(curve, selected[1], mx, my) ELSE curve
                sel1 == IF moved THEN selected ELSE collide(curve.control, mx, my)
                \* lines 335-340
                deleted == may_delete(sel1, right_pressed)
                c2 == IF deleted
                      THEN [c1 EXCEPT !.control = remove(c1.control, sel1[1]),
                                      !.modified = TRUE]
                      ELSE c1
                \* lines 343-349
                inserted == may_insert(sel1, left_pressed)
                c3 == IF inserted
                      THEN [c2 EXCEPT !.control = Append(@, vec2(mx, my)),
                                      !.modified = TRUE]
                      ELSE c2
                \* lines 352-354
                sel4 == unselect(sel1, left_down)
            IN  /\ inserted => Len(curve.control) < MaxPoints
                /\ curve' = c3
                /\ selected' = sel4
                \* lines 364-367: the toggle leaves curve.modified alone
                /\ use_casteljau' = IF key_m THEN ~use_casteljau ELSE use_casteljau
                /\ pc' = "draw"
                /\ frame' = [ scanned |-> ~moved,
                              near |-> IF moved THEN {}
                                       ELSE { i \in 0..(Len(curve.control) - 1) :
                                                within_radius(curve.control[i + 1], mx, my) },
                              picked |-> IF moved THEN None ELSE sel1,
                              moved |-> moved, deleted |-> deleted,
                              inserted |-> inserted,
                              released |-> (sel1 # None /\ ~left_down),
                              toggled |-> key_m, pass |-> "none" ]
                /\ UNCHANGED << pts, res >>

\* curve.draw(draw_bounding, use_casteljau); next_frame().await
Draw ==
    /\ pc = "draw"
    /\ curve' = draw(curve, use_casteljau)
    /\ pc' = "input"
    /\ frame' = [NoFrame EXCEPT !.pass = IF Len(curve.control) < 4 THEN "short"
                                       ELSE IF curve.modified THEN "rebuild"
                                       ELSE "read"]
    /\ UNCHANGED << selected, use_casteljau, pts, res >>

NoRes == [op |-> "none"]

Init ==
    /\ curve = [control |-> <<>>, rendered |-> <<>>, boxes |-> <<>>, modified |-> TRUE]
    /\ selected = None
    /\ use_casteljau = FALSE
    /\ pc = "input"
    /\ frame = NoFrame
    /\ pts = <<>>
    /\ res = NoRes

Input ==
    \E p \in Pointer, left_down, left_pressed, right_pressed, key_m \in BOOLEAN :
        Frame(p[1], p[2], left_down, left_pressed, right_pressed, key_m)

Next == Input \/ Draw

Spec == Init /\ [][Next]_vars

-----------------------------------------------------------------------------
(* The pure functions, each applied once to a segment of 4 control points  *)
(* drawn from the grid                                                     *)

Grid == { vec2(R(x), R(y)) : x \in 0..MaxCoord, y \in 0..MaxCoord }

axis_values(points, axis) ==
    << points[1][axis], points[2][axis], points[3][axis], points[4][axis] >>

InitMath ==
    /\ curve = [control |-> <<>>, rendered |-> <<>>, boxes |-> <<>>, modified |-> TRUE]
    /\ selected = None
    /\ use_casteljau = FALSE
    /\ pc = "input"
    /\ frame = NoFrame
    /\ pts \in [1..4 -> Grid]
    /\ res = NoRes

Solve(axis) ==
    /\ res = NoRes
    /\ res' = [op |-> "solve", axis |-> axis,
               val |-> solve_quadratic(axis_values(pts, axis))]
    /\ UNCHANGED << curve, selected, use_casteljau, pc, frame, pts >>

Boxes ==
    /\ res = NoRes
    /\ res' = [op |-> "boxes", coarse |-> bounding_box(pts),
               tight |-> tight_bounding_box(pts)]
    /\ UNCHANGED << curve, selected, use_casteljau, pc, frame, pts >>

Eval(j) ==
    /\ res = NoRes
    /\ res' = [op |-> "eval", t |-> sample_t(j),
               recursive |-> decasteljau(pts, sample_t(j)),
               polynomial |-> cubic_bezier(sample_t(j), pts)]
    /\ UNCHANGED << curve, selected, use_casteljau, pc, frame, pts >>

NextMath ==
    \/ \E axis \in 1..2 : Solve(axis)
    \/ Boxes
    \/ \E j \in 0..Steps : Eval(j)

SpecMath == InitMath /\ [][NextMath]_vars

-----------------------------------------------------------------------------
(* Properties *)

SetMin(S) == CHOOSE x \in S : \A y \in S : x <= y

SetMax(S) == CHOOSE x \in S : \A y \in S : y <= x

\* C1: no frame aborts the process, and a selection held at the start of a
\* frame is a valid index into the control points.
C1_SelectionValid ==
    /\ pc # "aborted"
    /\ (pc = "input" /\ selected # None) => selected[1] < Len(curve.control)

\* C2 as stated: a frame that starts with nothing selected and finds control
\* points within the pick radius selects the lowest index among them.
C2_PicksLowestIndex ==
    (pc = "draw" /\ frame.scanned /\ frame.near # {})
        => frame.picked = Some(SetMin(frame.near))

\* C2 amended: such a frame selects the highest index among the control
\* points within the pick radius.
C2_PicksHighestIndex ==
    (pc = "draw" /\ frame.scanned /\ frame.near # {})
        => frame.picked = Some(SetMax(frame.near))

\* a scan that found two or more control points within the radius
C2_Witness ==
    /\ pc = "draw"
    /\ frame.scanned
    /\ Cardinality(frame.near) >= 2
    /\ frame.picked # None

\* C3: when the draw pass of a frame starts, the curve is dirty if the frame
\* moved, removed or added a control point or toggled the evaluation mode.
C3_DirtyAtDraw ==
    (pc = "draw" /\ (frame.moved \/ frame.deleted \/ frame.inserted \/ frame.toggled))
        => curve.modified

\* the caches of c are exactly one full rebuild of its control points: K
\* segments, segment k from control points 3k..3k+3, 2K boxes (coarse, then
\* tight), K blocks of Steps + 1 samples
RebuiltInFull(c, casteljau) ==
    LET N == Len(c.control)
        K == ((N - 4) \div 3) + 1
        window(k) == << c.control[3 * k + 1], c.control[3 * k + 2],
                        c.control[3 * k + 3], c.control[3 * k + 4] >>
    IN  /\ ~c.modified
        /\ Len(c.boxes) = 2 * K
        /\ Len(c.rendered) = K * (Steps + 1)
        /\ \A k \in 0..(K - 1) :
              /\ << c.boxes[2 * k + 1].point_min, c.boxes[2 * k + 1].point_max >>
                     = bounding_box(window(k))
              /\ c.boxes[2 * k + 1].outline_color = BOUNDING_BOX_COLOR
              /\ << c.boxes[2 * k + 2].point_min, c.boxes[2 * k + 2].point_max >>
                     = tight_bounding_box(window(k))
              /\ c.boxes[2 * k + 2].outline_color = GOLD
              /\ \A j \in 0..Steps :
                    c.rendered[k * (Steps + 1) + j + 1]
                        = bezier(casteljau, window(k), sample_t(j))

\* C4: a draw pass run on a dirty curve with N >= 4 control points ends with
\* the curve clean and both caches cleared and rebuilt in full.
C4_RebuildInFull ==
    [][ (pc = "draw" /\ curve.modified /\ Len(curve.control) >= 4)
            => RebuiltInFull(curve', use_casteljau) ]_vars

\* a rebuild of two segments has just been done
C4_Witness ==
    /\ pc = "input"
    /\ frame.pass = "rebuild"
    /\ Len(curve.control) = 7
    /\ Len(curve.boxes) = 4

\* C5 as stated: after a draw pass on fewer than 4 control points both caches
\* are empty.
C5_EmptyWhenShort ==
    (pc = "input" /\ Len(curve.control) < 4)
        => (curve.rendered = <<>> /\ curve.boxes = <<>>)

\* C5 amended: a draw pass on fewer than 4 control points leaves the curve,
\* both caches and the dirty flag included, exactly as it was.
C5_ShortDrawKeepsCaches ==
    [][ (pc = "draw" /\ Len(curve.control) < 4) => curve' = curve ]_vars

\* a draw pass on fewer than 4 control points has just left the samples and
\* boxes of an earlier rebuild in the caches
C5_Witness ==
    /\ pc = "input"
    /\ frame.pass = "short"
    /\ Len(curve.control) < 4
    /\ curve.rendered # <<>>
    /\ curve.boxes # <<>>

\* how many of the five interaction rules took effect in the frame
RulesFired(f) ==
    Cardinality({ r \in { "selection", "drag", "release", "delete", "insert" } :
                    \/ r = "selection" /\ f.picked # None
                    \/ r = "drag" /\ f.moved
                    \/ r = "release" /\ f.released
                    \/ r = "delete" /\ f.deleted
                    \/ r = "insert" /\ f.inserted })

\* C6 as stated: at most one of selection, drag, release, delete and insert
\* takes effect in a frame.
C6_MutuallyExclusive == pc = "draw" => RulesFired(frame) <= 1

\* C6 amended: selection and drag never both take effect in a frame, and
\* insert takes effect only in a frame in which none of the other four does.
C6_InsertAloneSelectXorDrag ==
    pc = "draw" =>
        /\ ~(frame.picked # None /\ frame.moved)
        /\ frame.inserted => RulesFired(frame) = 1

\* a frame that appended a point to a curve that already had control points
C6_Witness == pc = "draw" /\ frame.inserted /\ Len(curve.control) >= 2

\* C7: a draw pass on a clean curve changes neither cache, nor the control
\* points, nor the dirty flag.
C7_CleanDrawIsPureRead ==
    [][ (pc = "draw" /\ ~curve.modified) => curve' = curve ]_vars

\* a draw pass has just read the caches of a clean curve
C7_Witness ==
    /\ pc = "input"
    /\ frame.pass = "read"
    /\ ~curve.modified
    /\ curve.rendered # <<>>

Finite(x) == x.d # 0

\* C8: the solver returns None when the leading coefficient is 0, and a pair
\* of roots only with a # 0 and discriminant >= 0, both roots finite.
C8_DegenerateAxisIsAbsent ==
    res.op = "solve" =>
        LET xs == axis_values(pts, res.axis)
        IN  /\ quad_a(xs) = R(0) => res.val = None
            /\ res.val # None =>
                  /\ quad_a(xs) # R(0)
                  /\ RLe(R(0), quad_delta(xs))
                  /\ Finite(res.val[1][1])
                  /\ Finite(res.val[1][2])

\* C9: the tight box lies within the coarse box of the same 4 control points
\* on both axes.
C9_TightInsideCoarse ==
    res.op = "boxes" =>
        \A axis \in 1..2 :
            /\ RLe(res.coarse[1][axis], res.tight[1][axis])
            /\ RLe(res.tight[2][axis], res.coarse[2][axis])

\* an interior extremum widened the tight box beyond its two anchors, and the
\* tight box is smaller than the coarse one
C9_Witness ==
    /\ res.op = "boxes"
    /\ res.tight # bounding_box(<< pts[1], pts[4] >>)
    /\ res.tight # res.coarse

Tolerance == Norm(1, 10000)

RAbs(x) == [n |-> Abs(x.n), d |-> x.d]

\* C10: the recursive and the polynomial evaluator return the same position,
\* within tolerance, on both axes.
C10_EvaluatorsAgree ==
    res.op = "eval" =>
        \A axis \in 1..2 :
            RLe(RAbs(RSub(res.recursive[axis], res.polynomial[axis])), Tolerance)

\* an evaluation strictly inside the segment, at a position that is none of
\* the control points
C10_Witness ==
    /\ res.op = "eval"
    /\ RLt(R(0), res.t)
    /\ RLt(res.t, R(1))
    /\ \A i \in 1..4 : res.polynomial # pts[i]

====
